---- MODULE Spec2Model ----
(***************************************************************************)
(* Model of .github/scripts/build-uprn-service-config.py: the export of    *)
(* every sheet of a workbook to CSV and the maintenance of the manifest.   *)
(*                                                                         *)
(* Strings are sequences of code points (so that Python's string order and *)
(* the character tests of safe_filename are computed, not assumed).  A     *)
(* sha256 hex digest is an injective, never empty encoding of the bytes.   *)
(* A JSON object is a function from field names to values.                 *)
(***************************************************************************)
EXTENDS Integers, Sequences, FiniteSets, TLC

VARIABLES
    excel,          \* the file at args.excel: absent, or a workbook
    manifestFile,   \* the file at args.manifest
    csvFiles,       \* the CSV files on disk: csv path -> bytes
    dirs,           \* the directories that exist
    pc,             \* position of the running main(), or "idle"
    failedAt,       \* the step that raised, "" when none
    exit_code,      \* exit status of the last main()
    old_manifest,   \* main's local: result of read_json
    excel_sha,      \* main's local
    outputs,        \* export_sheets_to_csv's list / main's local
    xls,            \* export_sheets_to_csv's open workbook
    idx,            \* export_sheets_to_csv's loop position
    version,        \* main's local
    manifest0,      \* the manifest file when the run started
    csv0,           \* the CSV files when the run started
    dirs0,          \* the directories when the run started
    prev,           \* outcome of the run before the current one
    runs,           \* number of runs started
    name,           \* safe_filename check: the input sheet name
    once,           \* safe_filename check: safe_filename(name)
    twice,          \* safe_filename check: safe_filename(once)
    stage           \* safe_filename check: how often it was applied

mainVars == <<excel, manifestFile, csvFiles, dirs, pc, failedAt, exit_code,
              old_manifest, excel_sha, outputs, xls, idx, version,
              manifest0, csv0, dirs0, prev, runs>>
safeVars == <<name, once, twice, stage>>
vars == <<mainVars, safeVars>>

\* ---------------------------------------------------------------- bounds
MaxNameLen == 3
MaxSheets == 2
MaxCell == 2
MaxVersion == 1
MaxRuns == 2

\* ------------------------------------------------------------- utilities
\* code points: ' ' 32, '-' 45, '.' 46, '1' 49, '_' 95, 'a' 97
Alphabet == {32, 45, 46, 49, 95, 97}

RECURSIVE SeqsUpTo(_, _)
SeqsUpTo(S, n) ==
    IF n = 0 THEN {<<>>}
    ELSE LET shorter == SeqsUpTo(S, n - 1)
         IN  shorter \cup {Append(s, c) : s \in {t \in shorter : Len(t) = n - 1}, c \in S}

\* str.isalnum() on the code points of the model's alphabet (ASCII)
isalnum(c) == (c >= 48 /\ c <= 57) \/ (c >= 65 /\ c <= 90) \/ (c >= 97 /\ c <= 122)

\* str.strip("_")
RECURSIVE lstrip(_)
lstrip(s) == IF s # <<>> /\ Head(s) = 95 THEN lstrip(Tail(s)) ELSE s
RECURSIVE rstrip(_)
rstrip(s) == IF s # <<>> /\ s[Len(s)] = 95 THEN rstrip(SubSeq(s, 1, Len(s) - 1)) ELSE s
strip(s) == rstrip(lstrip(s))

\* the generator expression of safe_filename
replace_chars(s) == [i \in 1..Len(s) |-> IF isalnum(s[i]) \/ s[i] \in {45, 95} THEN s[i] ELSE 95]

sheet_literal == <<115, 104, 101, 101, 116>>

\* a slip: strips before the replacement, so replaced ends are left in
safe_filename_strip_first(s) ==
    LET cleaned == replace_chars(strip(s))
    IN  IF cleaned = <<>> THEN sheet_literal ELSE cleaned

safe_filename(s) ==
    LET cleaned == strip(replace_chars(s))
    IN  IF cleaned = <<>> THEN sheet_literal ELSE cleaned

\* Python's < on str: lexicographic on code points
RECURSIVE str_lt(_, _)
str_lt(a, b) ==
    IF b = <<>> THEN FALSE
    ELSE IF a = <<>> THEN TRUE
    ELSE IF Head(a) # Head(b) THEN Head(a) < Head(b)
    ELSE str_lt(Tail(a), Tail(b))
str_le(a, b) == a = b \/ str_lt(a, b)

\* hashlib.sha256(bytes).hexdigest(): deterministic, injective, never ""
sha256_hex(bytes) == <<104>> \o bytes

\* sha256_file: the file is read in chunks, each fed to the running hash
RECURSIVE hash_chunks(_, _)
hash_chunks(h, rest) ==
    IF rest = <<>> THEN h
    ELSE LET n == IF Len(rest) < 1024 * 1024 THEN Len(rest) ELSE 1024 * 1024
         IN  hash_chunks(h \o SubSeq(rest, 1, n), SubSeq(rest, n + 1, Len(rest)))
sha256_file(bytes) == sha256_hex(hash_chunks(<<>>, bytes))

\* pathlib: Path.parent, Path.stem, mkdir(parents=True, exist_ok=True)
LastIndexOf(s, c) ==
    LET I == {i \in 1..Len(s) : s[i] = c}
    IN  IF I = {} THEN 0 ELSE CHOOSE i \in I : \A j \in I : j <= i
path_parent(p) ==
    LET k == LastIndexOf(p, 47) IN IF k = 0 THEN <<46>> ELSE SubSeq(p, 1, k - 1)
path_stem(p) ==
    LET n == SubSeq(p, LastIndexOf(p, 47) + 1, Len(p))
        d == LastIndexOf(n, 46)
    IN  IF d <= 1 THEN n ELSE SubSeq(n, 1, d - 1)
mkdir_p(ds, p) ==
    ds \cup {p} \cup {SubSeq(p, 1, i - 1) : i \in {j \in 2..Len(p) : p[j] = 47}}

\* ------------------------------------------------------------ JSON values
EmptyDict == [k \in {} |-> 0]
JNull == [t |-> "null"]
JInt(n) == [t |-> "int", n |-> n, s |-> <<>>]
JStr(s) == [t |-> "str", n |-> 0, s |-> s]
Merge(f, g) == [k \in DOMAIN f \cup DOMAIN g |-> IF k \in DOMAIN g THEN g[k] ELSE f[k]]

\* int(x) of Python on a JSON number or string: a string must be digits
RECURSIVE digits_value(_, _)
digits_value(acc, s) ==
    IF s = <<>> THEN acc ELSE digits_value(10 * acc + (Head(s) - 48), Tail(s))
py_int(v) ==
    IF v.t = "int" THEN [ok |-> TRUE, n |-> v.n]
    ELSE IF v.s # <<>> /\ \A i \in 1..Len(v.s) : v.s[i] >= 48 /\ v.s[i] <= 57
         THEN [ok |-> TRUE, n |-> digits_value(0, v.s)]
         ELSE [ok |-> FALSE, n |-> 0]

\* json.loads of the text of a file: only an object or an array parses
json_loads(f) ==
    IF f.kind = "object" THEN [ok |-> TRUE, isdict |-> TRUE, doc |-> f.doc]
    ELSE IF f.kind = "array" THEN [ok |-> TRUE, isdict |-> FALSE, doc |-> EmptyDict]
    ELSE [ok |-> FALSE, isdict |-> FALSE, doc |-> EmptyDict]

\* a slip: a text that does not parse is taken for "no previous manifest"
read_json_lenient(f) ==
    IF f.kind = "absent" \/ ~json_loads(f).ok
    THEN [ok |-> TRUE, isdict |-> TRUE, doc |-> EmptyDict]
    ELSE json_loads(f)

read_json(f) ==
    IF f.kind = "absent" THEN [ok |-> TRUE, isdict |-> TRUE, doc |-> EmptyDict]
    ELSE json_loads(f)

\* json.dumps(data, indent=2) + "\n" written to the file: the int becomes a
\* JSON number, the rest is already strings, objects and arrays
write_json(data) ==
    [kind |-> "object", doc |-> [data EXCEPT !.version = JInt(data.version)]]

\* ------------------------------------------------------------- data model
OutputEntry(sheet_name, csv_path, sha256) ==
    [sheet_name |-> sheet_name, csv_path |-> csv_path, sha256 |-> sha256]

\* ------------------------------------------------------------- arguments
args_excel == <<119, 46, 120, 108, 115, 120>>       \* "w.xlsx"
args_outdir == <<111>>                              \* "o"
args_manifest == <<99, 47, 109>>                    \* "c/m"

\* -------------------------------------------------------------- workbooks
\* "a", "a-a", "a a", "a_a", " "
SheetNamePool == {<<97>>, <<97, 45, 97>>, <<97, 32, 97>>, <<97, 95, 97>>, <<32>>}

NameLists ==
    {ns \in SeqsUpTo(SheetNamePool, MaxSheets) :
        /\ ns # <<>>
        /\ \A i, j \in 1..Len(ns) : i # j => ns[i] # ns[j]}

Workbooks ==
    UNION {{[kind |-> "xlsx", names |-> ns, cells |-> cs] :
               cs \in {c \in SeqsUpTo(1..MaxCell, MaxSheets) : Len(c) = Len(ns)}} :
           ns \in NameLists}

NoExcel == [kind |-> "absent", names |-> <<>>, cells |-> <<>>]

\* the bytes of the workbook file: every sheet with its name and its data
RECURSIVE xlsx_bytes(_, _)
xlsx_bytes(names, cells) ==
    IF names = <<>> THEN <<>>
    ELSE <<Len(Head(names))>> \o Head(names) \o <<Head(cells)>> \o
         xlsx_bytes(Tail(names), Tail(cells))

\* DataFrame.to_csv(index=False) of a sheet: its data as text
to_csv(cell) == <<48 + cell, 10>>

\* ------------------------------------------------------------ core logic
workbook_dir == args_outdir \o <<47>> \o path_stem(args_excel)
csv_file_of(sheet_name) == workbook_dir \o <<47>> \o safe_filename(sheet_name) \o <<46, 99, 115, 118>>

file_write(fs, p, bytes) == [q \in DOMAIN fs \cup {p} |-> IF q = p THEN bytes ELSE fs[q]]

\* sorted(items, key=...): every item is paired with its key, the pairs are
\* put in ascending key order, equal keys keeping their order (stable)
RECURSIVE sorted_insert(_, _)
sorted_insert(e, s) ==
    IF s = <<>> THEN <<e>>
    ELSE IF str_lt(e[1], Head(s)[1]) THEN <<e>> \o s
    ELSE <<Head(s)>> \o sorted_insert(e, Tail(s))
RECURSIVE sorted_keyed(_)
sorted_keyed(s) ==
    IF s = <<>> THEN <<>>
    ELSE sorted_insert(s[Len(s)], sorted_keyed(SubSeq(s, 1, Len(s) - 1)))
sorted(items, keys) ==
    LET r == sorted_keyed([i \in 1..Len(items) |-> <<keys[i], items[i]>>])
    IN  [i \in 1..Len(items) |-> r[i][2]]

\* a slip: the outputs are ordered by sheet name
export_return_by_sheet_name(outs) ==
    sorted(outs, [i \in 1..Len(outs) |-> outs[i].sheet_name])

\* the return statement of export_sheets_to_csv
export_return(outs) ==
    sorted(outs, [i \in 1..Len(outs) |-> outs[i].csv_path])

\* the recorded source sha256 of the previous manifest, "" by default
old_sha_of(doc) ==
    LET source == IF "source" \in DOMAIN doc THEN doc.source ELSE JNull
        src == IF source = JNull \/ source = EmptyDict THEN EmptyDict ELSE source
    IN  IF "sha256" \in DOMAIN src THEN src.sha256 ELSE <<>>

old_version_of(doc, default) ==
    IF "version" \in DOMAIN doc THEN py_int(doc.version) ELSE [ok |-> TRUE, n |-> default]

\* a slip: the version is incremented on every run
next_version_always(old, new_excel_sha) ==
    LET ov == old_version_of(old.doc, 0)
    IN  IF ~old.isdict \/ ~ov.ok THEN [ok |-> FALSE, n |-> 0]
        ELSE [ok |-> TRUE, n |-> ov.n + 1]

\* a slip: a manifest without a version counts as version 1
next_version_default_one(old, new_excel_sha) ==
    LET ov == old_version_of(old.doc, 1)
    IN  IF ~old.isdict \/ ~ov.ok THEN [ok |-> FALSE, n |-> 0]
        ELSE [ok |-> TRUE, n |-> IF new_excel_sha # old_sha_of(old.doc) THEN ov.n + 1 ELSE ov.n]

\* a slip: the recorded source path takes part in the comparison
next_version_with_path(old, new_excel_sha) ==
    LET ov == old_version_of(old.doc, 0)
        source == IF "source" \in DOMAIN old.doc THEN old.doc.source ELSE JNull
        old_path == IF source # JNull /\ "path" \in DOMAIN source THEN source.path ELSE <<>>
    IN  IF ~old.isdict \/ ~ov.ok THEN [ok |-> FALSE, n |-> 0]
        ELSE [ok |-> TRUE,
              n |-> IF new_excel_sha # old_sha_of(old.doc) \/ old_path # args_excel
                    THEN ov.n + 1 ELSE ov.n]

\* next_version; ok is FALSE when it raises (old_manifest is not a dict, or
\* int() rejects the recorded version)
next_version(old, new_excel_sha) ==
    LET ov == old_version_of(old.doc, 0)
    IN  IF ~old.isdict \/ ~ov.ok THEN [ok |-> FALSE, n |-> 0]
        ELSE [ok |-> TRUE, n |-> IF new_excel_sha # old_sha_of(old.doc) THEN ov.n + 1 ELSE ov.n]

build_manifest(excel_path, outdir, manifest_path, outs, sha, v) ==
    [version |-> v,
     generated_dir |-> outdir,
     source |-> [path |-> excel_path, sha256 |-> sha],
     output |-> outs]

\* ------------------------------------------------- the files before a run
stale_sha == sha256_hex(<<>>)
old_excel == <<118, 46, 120, 108, 115, 120>>        \* "v.xlsx"

VersionParts ==
    {EmptyDict} \cup {[version |-> JInt(n)] : n \in 0..MaxVersion} \cup
    {[version |-> JStr(<<49>>)], [version |-> JStr(<<120>>)]}

SourceParts(cur_sha) ==
    {EmptyDict, [source |-> JNull], [source |-> [path |-> args_excel]]} \cup
    {[source |-> [path |-> p, sha256 |-> h]] :
        p \in {args_excel, old_excel}, h \in {<<>>, cur_sha, stale_sha}}

DecorParts ==
    {EmptyDict,
     [generated_dir |-> <<103>>,
      output |-> <<OutputEntry(<<122>>, <<122>>, stale_sha)>>,
      note |-> <<110>>]}

PrevDocs(cur_sha) ==
    {Merge(Merge(v, so), d) : v \in VersionParts, so \in SourceParts(cur_sha), d \in DecorParts}

ManifestFiles(cur_sha) ==
    {[kind |-> k, doc |-> EmptyDict] : k \in {"absent", "garbage", "array"}} \cup
    {[kind |-> "object", doc |-> d] : d \in PrevDocs(cur_sha)}

excel_bytes(f) == xlsx_bytes(f.names, f.cells)

NoLocals ==
    /\ old_manifest = [read |-> FALSE, isdict |-> FALSE, doc |-> EmptyDict]
    /\ excel_sha = <<>> /\ outputs = <<>> /\ xls = NoExcel /\ idx = 0 /\ version = 0

InitMainIdle ==
    /\ csvFiles = EmptyDict /\ dirs = {}
    /\ pc = "idle" /\ failedAt = "" /\ exit_code = 0
    /\ NoLocals
    /\ manifest0 = manifestFile /\ csv0 = csvFiles /\ dirs0 = dirs
    /\ prev = [ok |-> FALSE, sha |-> <<>>, version |-> 0]

\* the workbooks of the runs that exercise the versioning rule: one sheet
\* "a a", or the sheets "a", "a-a"
VersionWorkbooks ==
    {[kind |-> "xlsx", names |-> <<<<97, 32, 97>>>>, cells |-> <<1>>],
     [kind |-> "xlsx", names |-> <<<<97>>, <<97, 45, 97>>>>, cells |-> <<1, 1>>]}

\* any previous manifest, a fixed workbook (or none), MaxRuns runs
Init ==
    /\ excel \in VersionWorkbooks \cup {NoExcel}
    /\ manifestFile \in ManifestFiles(IF excel.kind = "xlsx"
                                      THEN sha256_file(excel_bytes(excel)) ELSE <<>>)
    /\ InitMainIdle
    /\ runs = 0
    /\ name = <<>> /\ once = <<>> /\ twice = <<>> /\ stage = 0

\* any workbook; no manifest, an unreadable one or one of another workbook;
\* the last run of the budget
InitSheets ==
    /\ excel \in Workbooks
    /\ manifestFile \in
          {[kind |-> k, doc |-> EmptyDict] : k \in {"absent", "garbage"}} \cup
          {[kind |-> "object",
            doc |-> [version |-> JInt(MaxVersion),
                     generated_dir |-> <<103>>,
                     source |-> [path |-> old_excel, sha256 |-> stale_sha],
                     output |-> <<OutputEntry(<<122>>, <<122>>, stale_sha)>>]]}
    /\ InitMainIdle
    /\ runs = MaxRuns - 1
    /\ name = <<>> /\ once = <<>> /\ twice = <<>> /\ stage = 0

\* ------------------------------------------------------------------ main
Fail(step) ==
    /\ pc' = "failed" /\ failedAt' = step /\ exit_code' = 1

\* python build-uprn-service-config.py --excel .. --outdir .. --manifest ..
StartRun ==
    /\ pc = "idle" /\ runs < MaxRuns
    /\ runs' = runs + 1
    /\ pc' = "exists" /\ failedAt' = ""
    /\ manifest0' = manifestFile /\ csv0' = csvFiles /\ dirs0' = dirs
    /\ UNCHANGED <<excel, manifestFile, csvFiles, dirs, exit_code, old_manifest,
                   excel_sha, outputs, xls, idx, version, prev, safeVars>>

\* a slip: the directories are made before the source is looked for
CheckExistsAfterMkdir ==
    /\ pc = "exists"
    /\ dirs' = mkdir_p(mkdir_p(dirs, args_outdir), path_parent(args_manifest))
    /\ IF excel.kind = "absent" THEN Fail("exists")
       ELSE pc' = "mkdir" /\ UNCHANGED <<failedAt, exit_code>>
    /\ UNCHANGED <<excel, manifestFile, csvFiles, old_manifest, excel_sha,
                   outputs, xls, idx, version, manifest0, csv0, dirs0, prev, runs, safeVars>>

\* if not excel_path.exists(): raise SystemExit(...)
CheckExists ==
    /\ pc = "exists"
    /\ IF excel.kind = "absent" THEN Fail("exists")
       ELSE pc' = "mkdir" /\ UNCHANGED <<failedAt, exit_code>>
    /\ UNCHANGED <<excel, manifestFile, csvFiles, dirs, old_manifest, excel_sha,
                   outputs, xls, idx, version, manifest0, csv0, dirs0, prev, runs, safeVars>>

\* outdir.mkdir(...); manifest_path.parent.mkdir(...)
MkDirs ==
    /\ pc = "mkdir"
    /\ dirs' = mkdir_p(mkdir_p(dirs, args_outdir), path_parent(args_manifest))
    /\ pc' = "read_json"
    /\ UNCHANGED <<excel, manifestFile, csvFiles, failedAt, exit_code, old_manifest,
                   excel_sha, outputs, xls, idx, version, manifest0, csv0, dirs0,
                   prev, runs, safeVars>>

\* one of the two mkdir calls raises OSError
MkDirsFail ==
    /\ pc = "mkdir"
    /\ dirs' \in {dirs, mkdir_p(dirs, args_outdir)}
    /\ Fail("mkdir")
    /\ UNCHANGED <<excel, manifestFile, csvFiles, old_manifest, excel_sha, outputs,
                   xls, idx, version, manifest0, csv0, dirs0, prev, runs, safeVars>>

\* a slip: the manifest is opened for writing as soon as it has been read
ReadManifestOpenForWrite ==
    /\ pc = "read_json"
    /\ LET r == read_json(manifestFile)
       IN  IF r.ok
           THEN /\ old_manifest' = [read |-> TRUE, isdict |-> r.isdict, doc |-> r.doc]
                /\ manifestFile' = [kind |-> "truncated", doc |-> EmptyDict]
                /\ pc' = "sha256_file"
                /\ UNCHANGED <<failedAt, exit_code>>
           ELSE /\ Fail("read_json")
                /\ UNCHANGED <<old_manifest, manifestFile>>
    /\ UNCHANGED <<excel, csvFiles, dirs, excel_sha, outputs, xls, idx,
                   version, manifest0, csv0, dirs0, prev, runs, safeVars>>

\* old_manifest = read_json(manifest_path)
ReadManifest ==
    /\ pc = "read_json"
    /\ LET r == read_json(manifestFile)
       IN  IF r.ok
           THEN /\ old_manifest' = [read |-> TRUE, isdict |-> r.isdict, doc |-> r.doc]
                /\ pc' = "sha256_file"
                /\ UNCHANGED <<failedAt, exit_code>>
           ELSE /\ Fail("read_json")
                /\ UNCHANGED old_manifest
    /\ UNCHANGED <<excel, manifestFile, csvFiles, dirs, excel_sha, outputs, xls, idx,
                   version, manifest0, csv0, dirs0, prev, runs, safeVars>>

\* excel_sha = sha256_file(excel_path)
HashSource ==
    /\ pc = "sha256_file"
    /\ excel_sha' = sha256_file(excel_bytes(excel))
    /\ pc' = "ExcelFile"
    /\ UNCHANGED <<excel, manifestFile, csvFiles, dirs, failedAt, exit_code,
                   old_manifest, outputs, xls, idx, version, manifest0, csv0, dirs0,
                   prev, runs, safeVars>>

\* sha256_file raises OSError
HashSourceFail ==
    /\ pc = "sha256_file"
    /\ Fail("sha256_file")
    /\ UNCHANGED <<excel, manifestFile, csvFiles, dirs, old_manifest, excel_sha,
                   outputs, xls, idx, version, manifest0, csv0, dirs0, prev, runs, safeVars>>

\* export_sheets_to_csv: xls = pd.ExcelFile(..); workbook_dir.mkdir(..); outputs = []
OpenWorkbook ==
    /\ pc = "ExcelFile"
    /\ xls' = excel
    /\ dirs' = mkdir_p(dirs, workbook_dir)
    /\ outputs' = <<>> /\ idx' = 1
    /\ pc' = "sheet"
    /\ UNCHANGED <<excel, manifestFile, csvFiles, failedAt, exit_code, old_manifest,
                   excel_sha, version, manifest0, csv0, dirs0, prev, runs, safeVars>>

\* pd.ExcelFile raises: the file is not a readable workbook
OpenWorkbookFail ==
    /\ pc = "ExcelFile"
    /\ Fail("ExcelFile")
    /\ UNCHANGED <<excel, manifestFile, csvFiles, dirs, old_manifest, excel_sha,
                   outputs, xls, idx, version, manifest0, csv0, dirs0, prev, runs, safeVars>>

\* one iteration of the loop over xls.sheet_names
ExportSheet ==
    /\ pc = "sheet" /\ idx <= Len(xls.names)
    /\ LET sheet_name == xls.names[idx]
           csv_file == csv_file_of(sheet_name)
           written == file_write(csvFiles, csv_file, to_csv(xls.cells[idx]))
       IN  /\ csvFiles' = written
           /\ outputs' = Append(outputs,
                  OutputEntry(sheet_name, csv_file, sha256_file(written[csv_file])))
    /\ idx' = idx + 1
    /\ UNCHANGED <<excel, manifestFile, dirs, pc, failedAt, exit_code, old_manifest,
                   excel_sha, xls, version, manifest0, csv0, dirs0, prev, runs, safeVars>>

\* xls.parse raises on a sheet: the CSV files written so far stay
ExportSheetFail ==
    /\ pc = "sheet" /\ idx <= Len(xls.names)
    /\ Fail("parse")
    /\ UNCHANGED <<excel, manifestFile, csvFiles, dirs, old_manifest, excel_sha,
                   outputs, xls, idx, version, manifest0, csv0, dirs0, prev, runs, safeVars>>

\* return sorted(outputs, key=lambda o: o.csv_path)
ExportReturn ==
    /\ pc = "sheet" /\ idx > Len(xls.names)
    /\ outputs' = export_return(outputs)
    /\ pc' = "next_version"
    /\ UNCHANGED <<excel, manifestFile, csvFiles, dirs, failedAt, exit_code,
                   old_manifest, excel_sha, xls, idx, version, manifest0, csv0, dirs0,
                   prev, runs, safeVars>>

\* version = next_version(old_manifest, excel_sha)
NextVersion ==
    /\ pc = "next_version"
    /\ LET r == next_version(old_manifest, excel_sha)
       IN  IF r.ok
           THEN version' = r.n /\ pc' = "write_json" /\ UNCHANGED <<failedAt, exit_code>>
           ELSE Fail("next_version") /\ UNCHANGED version
    /\ UNCHANGED <<excel, manifestFile, csvFiles, dirs, old_manifest, excel_sha,
                   outputs, xls, idx, manifest0, csv0, dirs0, prev, runs, safeVars>>

new_manifest ==
    build_manifest(args_excel, args_outdir, args_manifest, outputs, excel_sha, version)

\* new_manifest = build_manifest(..); write_json(manifest_path, new_manifest)
WriteManifest ==
    /\ pc = "write_json"
    /\ manifestFile' = write_json(new_manifest)
    /\ pc' = "done" /\ exit_code' = 0
    /\ UNCHANGED <<excel, csvFiles, dirs, failedAt, old_manifest, excel_sha, outputs,
                   xls, idx, version, manifest0, csv0, dirs0, prev, runs, safeVars>>

\* path.write_text raises OSError: on opening (the file is as it was) or
\* after the file was truncated
WriteManifestFail ==
    /\ pc = "write_json"
    /\ manifestFile' \in {manifestFile, [kind |-> "truncated", doc |-> EmptyDict]}
    /\ Fail("write_json")
    /\ UNCHANGED <<excel, csvFiles, dirs, old_manifest, excel_sha, outputs,
                   xls, idx, version, manifest0, csv0, dirs0, prev, runs, safeVars>>

\* the process ends; its locals are gone
Exit ==
    /\ pc \in {"done", "failed"}
    /\ prev' = [ok |-> pc = "done", sha |-> excel_sha,
                version |-> IF pc = "done" THEN manifestFile.doc.version.n ELSE 0]
    /\ pc' = "idle" /\ failedAt' = ""
    /\ old_manifest' = [read |-> FALSE, isdict |-> FALSE, doc |-> EmptyDict]
    /\ excel_sha' = <<>> /\ outputs' = <<>> /\ xls' = NoExcel /\ idx' = 0 /\ version' = 0
    /\ manifest0' = manifestFile /\ csv0' = csvFiles /\ dirs0' = dirs
    /\ UNCHANGED <<excel, manifestFile, csvFiles, dirs, exit_code, runs, safeVars>>

\* between two runs: a cell of the workbook is edited and the file saved
EditCell ==
    /\ pc = "idle" /\ runs >= 1 /\ runs < MaxRuns /\ excel.kind = "xlsx"
    /\ \E i \in 1..Len(excel.cells), c \in 1..MaxCell :
          /\ c # excel.cells[i]
          /\ excel' = [excel EXCEPT !.cells[i] = c]
    /\ UNCHANGED <<manifestFile, csvFiles, dirs, pc, failedAt, exit_code, old_manifest,
                   excel_sha, outputs, xls, idx, version, manifest0, csv0, dirs0,
                   prev, runs, safeVars>>

\* between two runs: the workbook is removed
DeleteSource ==
    /\ pc = "idle" /\ runs >= 1 /\ runs < MaxRuns /\ excel.kind = "xlsx"
    /\ excel' = NoExcel
    /\ UNCHANGED <<manifestFile, csvFiles, dirs, pc, failedAt, exit_code, old_manifest,
                   excel_sha, outputs, xls, idx, version, manifest0, csv0, dirs0,
                   prev, runs, safeVars>>

Next ==
    \/ StartRun \/ CheckExists \/ MkDirs \/ MkDirsFail \/ ReadManifest
    \/ HashSource \/ HashSourceFail \/ OpenWorkbook \/ OpenWorkbookFail
    \/ ExportSheet \/ ExportSheetFail \/ ExportReturn \/ NextVersion
    \/ WriteManifest \/ WriteManifestFail \/ Exit \/ EditCell \/ DeleteSource

Spec == Init /\ [][Next]_vars
SpecSheets == InitSheets /\ [][Next]_vars

\* ------------------------------------------------- safe_filename checking
InitSafe ==
    /\ excel = NoExcel
    /\ manifestFile = [kind |-> "absent", doc |-> EmptyDict]
    /\ InitMainIdle
    /\ runs = 0
    /\ name \in SeqsUpTo(Alphabet, MaxNameLen)
    /\ once = <<>> /\ twice = <<>> /\ stage = 0

Sanitize ==
    /\ stage = 0
    /\ once' = safe_filename(name)
    /\ stage' = 1
    /\ UNCHANGED <<name, twice, mainVars>>

SanitizeAgain ==
    /\ stage = 1
    /\ twice' = safe_filename(once)
    /\ stage' = 2
    /\ UNCHANGED <<name, once, mainVars>>

NextSafe == Sanitize \/ SanitizeAgain
SpecSafe == InitSafe /\ [][NextSafe]_vars

\* C8: safe_filename is idempotent, safe_filename(safe_filename(s)) =
\* safe_filename(s) for every sheet name s, and a name made only of
\* disallowed characters (or the empty name) sanitizes to "sheet".
C8_Idempotent ==
    /\ stage = 2 => twice = once
    /\ (stage >= 1 /\ \A i \in 1..Len(name) : ~(isalnum(name[i]) \/ name[i] = 45)) =>
           once = sheet_literal

C8_Witness ==
    /\ stage = 2 /\ name # <<>> /\ once = sheet_literal /\ twice = sheet_literal
    /\ \A i \in 1..Len(name) : name[i] \in {32, 46}

\* ------------------------------------------------ claims on the manifest
\* what a manifest file records, as the claims read it: nothing recorded
\* counts as version 0 and as the empty hash
HasSha(doc) ==
    "source" \in DOMAIN doc /\ doc.source # JNull /\ "sha256" \in DOMAIN doc.source
RecordedSha(f) ==
    IF f.kind = "object" /\ HasSha(f.doc) THEN f.doc.source.sha256 ELSE <<>>
RecordedVersion(f) ==
    IF f.kind = "object" /\ "version" \in DOMAIN f.doc
    THEN IF f.doc.version.t = "int" THEN f.doc.version.n ELSE digits_value(0, f.doc.version.s)
    ELSE 0
ManifestFields == {"version", "generated_dir", "source", "output"}
IsSortedByPath(outs) ==
    \A i, j \in 1..Len(outs) : i < j => str_le(outs[i].csv_path, outs[j].csv_path)

\* C1: when a successful run is followed by a successful run on the same
\* source bytes (same sha256), the second run writes the version the first
\* run wrote.
C1_SameVersion ==
    (pc = "done" /\ prev.ok /\ prev.sha = excel_sha) =>
        manifestFile.doc.version = JInt(prev.version)

C1_Witness ==
    /\ pc = "done" /\ prev.ok /\ prev.sha = excel_sha /\ runs = 2
    /\ manifestFile.doc.version = JInt(prev.version)

\* C2: a successful run whose source sha256 differs from the sha256 the
\* previous manifest records writes the previous version plus 1; with no
\* manifest file (or no version, no source.sha256 in it) the previous
\* version is 0 and the recorded hash empty, so the first manifest has
\* version 1.
C2_IncrementByOne ==
    /\ (pc = "done" /\ excel_sha # RecordedSha(manifest0)) =>
           manifestFile.doc.version = JInt(RecordedVersion(manifest0) + 1)
    /\ (pc = "done" /\ manifest0.kind = "absent") => manifestFile.doc.version = JInt(1)
    /\ (pc = "done" /\ manifest0.kind = "object" /\ ~HasSha(manifest0.doc)
            /\ "version" \notin DOMAIN manifest0.doc) => manifestFile.doc.version = JInt(1)

C2_Witness ==
    /\ pc = "done" /\ manifest0.kind = "object"
    /\ "version" \in DOMAIN manifest0.doc /\ manifest0.doc.version = JInt(MaxVersion)
    /\ HasSha(manifest0.doc) /\ RecordedSha(manifest0) \notin {<<>>, excel_sha}
    /\ manifestFile.doc.version = JInt(MaxVersion + 1)

\* C5: when the source file does not exist main exits non-zero before any
\* other work: no directory is made, no CSV written, the previous manifest
\* is not read and the manifest file is as it was.
C5_MissingSource ==
    (excel.kind = "absent" /\ pc \notin {"idle", "exists"}) =>
        /\ pc = "failed" /\ failedAt = "exists" /\ exit_code # 0
        /\ dirs = dirs0 /\ csvFiles = csv0 /\ manifestFile = manifest0
        /\ ~old_manifest.read

C5_Witness ==
    /\ excel.kind = "absent" /\ pc = "failed" /\ failedAt = "exists" /\ exit_code # 0
    /\ manifest0.kind = "object" /\ args_outdir \notin dirs

\* C6: when the manifest file exists and is not valid JSON main fails with
\* the parse error: the file is never taken for "no previous manifest", no
\* manifest is written and no CSV exported.
C6_MalformedManifest ==
    (manifest0.kind \in {"garbage", "truncated"} /\ pc # "idle") =>
        /\ pc \in {"exists", "mkdir", "read_json", "failed"}
        /\ pc = "failed" => (failedAt \in {"exists", "mkdir", "read_json"} /\ exit_code # 0)
        /\ ~old_manifest.read
        /\ manifestFile = manifest0 /\ csvFiles = csv0

C6_Witness ==
    /\ manifest0.kind \in {"garbage", "truncated"}
    /\ pc = "failed" /\ failedAt = "read_json" /\ exit_code # 0
    /\ manifestFile = manifest0

\* C9: the new manifest depends on the previous one only through its version
\* and its source.sha256: every previous manifest that agrees with the one
\* read on these two fields gives the manifest that was written, and the
\* written manifest has the four fields of build_manifest and nothing else.
SameVersionAndSha(d, e) ==
    /\ ("version" \in DOMAIN d) = ("version" \in DOMAIN e)
    /\ "version" \in DOMAIN d => d.version = e.version
    /\ HasSha(d) = HasSha(e)
    /\ HasSha(d) => d.source.sha256 = e.source.sha256

Twins == {d \in PrevDocs(excel_sha) : SameVersionAndSha(d, old_manifest.doc)}

C9_OnlyVersionAndSha ==
    pc = "done" =>
        /\ \A d \in Twins :
              LET r == next_version([read |-> TRUE, isdict |-> TRUE, doc |-> d], excel_sha)
              IN  /\ r.ok
                  /\ write_json(build_manifest(args_excel, args_outdir, args_manifest,
                                               outputs, excel_sha, r.n)) = manifestFile
        /\ DOMAIN manifestFile.doc = ManifestFields
        /\ manifestFile.doc.generated_dir = args_outdir
        /\ manifestFile.doc.source = [path |-> args_excel, sha256 |-> excel_sha]
        /\ manifestFile.doc.output = outputs

C9_Witness ==
    /\ pc = "done" /\ manifest0.kind = "object"
    /\ "note" \in DOMAIN manifest0.doc /\ manifest0.doc.generated_dir # args_outdir
    /\ HasSha(manifest0.doc) /\ manifest0.doc.source.path # args_excel
    /\ \E d \in Twins : d # manifest0.doc /\ "note" \notin DOMAIN d
    /\ "note" \notin DOMAIN manifestFile.doc

\* -------------------------------------------------- claims on the export
\* C3: in a written manifest no two entries of output have the same csv_path.
C3_UniqueCsvPaths ==
    pc = "done" =>
        \A i, j \in 1..Len(manifestFile.doc.output) :
            i # j => manifestFile.doc.output[i].csv_path # manifestFile.doc.output[j].csv_path

\* C4: a run that fails in reading the previous manifest, hashing the source
\* or exporting a sheet (or anywhere before write_json) leaves the manifest
\* file as it was, also when CSV files were already written; a run that
\* completes has written a complete manifest.
C4_ManifestAtomic ==
    /\ pc \notin {"idle", "done", "failed"} => manifestFile = manifest0
    /\ (pc = "failed" /\ failedAt # "write_json") => manifestFile = manifest0
    /\ pc = "done" =>
          /\ manifestFile.kind = "object"
          /\ DOMAIN manifestFile.doc = ManifestFields
          /\ manifestFile.doc.source.sha256 = excel_sha
          /\ Len(manifestFile.doc.output) = Len(excel.names)

C4_Witness ==
    /\ pc = "failed" /\ failedAt = "parse" /\ idx = 2
    /\ csvFiles # csv0 /\ manifest0.kind = "object" /\ manifestFile = manifest0

\* C7: whatever the order of the sheets in the workbook, the outputs returned
\* by export_sheets_to_csv and written into the manifest are in ascending
\* order of csv_path.
C7_SortedByCsvPath ==
    /\ pc \in {"next_version", "write_json", "done"} => IsSortedByPath(outputs)
    /\ pc = "done" => IsSortedByPath(manifestFile.doc.output)

C7_Witness ==
    /\ pc = "done" /\ Len(outputs) >= 2
    /\ outputs[1].sheet_name # xls.names[1]
    /\ str_lt(outputs[1].csv_path, outputs[2].csv_path)
    /\ manifestFile.doc.output = outputs

\* C10: after a successful run the sha256 of every entry of the written
\* manifest is the hash of the file that is at the entry's csv_path.
C10_HashesMatchDisk ==
    pc = "done" =>
        \A i \in 1..Len(manifestFile.doc.output) :
            LET o == manifestFile.doc.output[i]
            IN  o.csv_path \in DOMAIN csvFiles /\ o.sha256 = sha256_file(csvFiles[o.csv_path])

====
